---- MODULE Spec2Model ----
(***************************************************************************)
(* WealthCircle treasury and governance engine.                            *)
(*                                                                         *)
(* The store is the Supabase/Postgres database; every `await supabase...`  *)
(* of a service function is one atomic statement on it, and the handler    *)
(* can be interleaved with other handlers between two statements.          *)
(*                                                                         *)
(* The repository holds two generations of the services:                   *)
(*   "lib"    src/lib/contributions.ts, src/lib/payouts.ts                 *)
(*   "secure" src/unnamed/part_004, src/unnamed/part_005                   *)
(* A build links one of them; `impl` says which.  The M-Pesa service       *)
(* exists twice as well: src/lib/mpesa.ts goes with "secure" (it shares    *)
(* its imports and its checks), src/unnamed/part_003 goes with "lib".      *)
(*                                                                         *)
(* The contributions table is the one the services write, typed in         *)
(* src/types/supabase.ts (transaction_code, payment_method, status); the   *)
(* tables chamas, chama_members, payout_requests and payout_votes carry    *)
(* the constraints of the schema in src/unnamed/part_010.                  *)
(***************************************************************************)
EXTENDS Integers, FiniteSets, Sequences, TLC

\* ---------------------------------------------------------------- bounds
MaxMembers == 3
NumSessions == 2
MaxCalls == 2
MaxSeqCalls == 4
MaxContribs == 2
MaxDisburse == 2
MaxRequests == 1
MaxDay == 4
MaxAccruals == 3
MaxChamaCalls == 2
MaxVerify == 2
MaxGateCalls == 6
MaxTicks == 4

\* ------------------------------------------------------------ value sets
Chamas == {"c1", "c2"}
Users == 1..MaxMembers
Callers == {1, 2}
Sessions == 1..NumSessions
Amounts == {-1, 1}
NoCode == "null"
Codes == {NoCode, "T1"}
VoteTypes == {"approve", "reject"}
Impls == {"secure", "lib"}
RequestIds == {"r1", "r2"}
NoId == 0
\* SQL NULL, an argument left out: below every number a column or a test admits
Null == -999

VARIABLES
    impl,            \* which generation of the services the build links
    serial,          \* TRUE: calls are issued one after another
    total_kitty,     \* chamas.total_kitty, per chama
    chama_members,   \* rows of chama_members
    contributions,   \* rows of contributions
    payout_requests, \* rows of payout_requests, by id
    payout_votes,    \* rows of payout_votes
    calls,           \* number of service calls issued so far
    cast,            \* one after another: the votes each user has submitted, per request
    sess,            \* per request handler: position, arguments, locals
    contribution_amount, \* chamas.contribution_amount, per chama
    disbursement_logs,   \* rows of disbursement_logs
    loan_repayments,     \* rows of loan_repayments
    clock,               \* the date, in days, of the latest maintenance run (0: none yet)
    chamas,              \* rows of chamas
    transactions,        \* rows of transactions
    transaction_logs,    \* rows of transaction_logs
    payoutAttempts,      \* the attempt map of the payout service, per identifier
    dateNow              \* Date.now(), in milliseconds

vars == <<impl, serial, total_kitty, chama_members, contributions,
          payout_requests, payout_votes, calls, cast, sess,
          contribution_amount, disbursement_logs, loan_repayments, clock,
          chamas, transactions, transaction_logs, payoutAttempts, dateNow>>

dbTracker == <<disbursement_logs, loan_repayments, clock>>
dbOther == <<chamas, transactions, transaction_logs, payoutAttempts, dateNow>>
dbRest == <<contribution_amount, dbTracker, dbOther>>

dbVote == <<payout_requests, payout_votes, cast>>
dbLedger == <<total_kitty, contributions>>

\* ------------------------------------------------------- handler frames
Idle == [pc |-> "idle", user |-> 0, chama |-> "c1", member |-> NoId,
         amount |-> 0, code |-> NoCode, req |-> "r1", vote |-> "approve",
         mid |-> NoId, tv |-> 0, av |-> 0, decided |-> "none",
         kind |-> "payout", rate |-> Null, months |-> Null,
         plen |-> 0, pbad |-> 0, userId |-> 0, role |-> "member",
         inviteCode |-> NoCode]

Return(res, id) == Idle @@ [result |-> res, retId |-> id]

Frame == Idle @@ [result |-> "none", retId |-> NoId]

IsIdle(s) == sess[s].pc = "idle"

\* one after another: a single client issues each call after the last returned
CanStart(s) ==
    /\ IsIdle(s)
    /\ serial => s = 1

\* an identifier the attempt map has no entry for
NoAttempt == [count |-> 0, lastAttempt |-> Null]

RateLimitIds == {"payoutRequest", "vote"} \X Users

\* payoutAttempts.delete(identifier) of the payout service of part_005
ResetAttempts(kind, u) ==
    IF impl = "secure"
    THEN [payoutAttempts EXCEPT ![<<kind, u>>] = NoAttempt]
    ELSE payoutAttempts

\* what a step of the payout service leaves alone besides the attempt map
dbNoAttempts == <<contribution_amount, dbTracker, chamas, transactions,
                  transaction_logs, dateNow>>

\* --------------------------------------------------------- store helpers
RECURSIVE SumAmounts(_)
SumAmounts(S) ==
    IF S = {} THEN 0
    ELSE LET x == CHOOSE y \in S : TRUE
         IN  x.amount + SumAmounts(S \ {x})

\* .eq('chama_id', c).eq('user_id', u).single(): data only for exactly one row
MemberRows(c, u) == {m \in chama_members : m.chama_id = c /\ m.user_id = u}

verifyChamaMembership(c, u) ==
    IF Cardinality(MemberRows(c, u)) = 1
    THEN (CHOOSE m \in MemberRows(c, u) : TRUE).id
    ELSE NoId

\* CHECK (total_kitty >= 0) of table chamas
chamas_total_kitty_check_dropped(v) == TRUE

chamas_total_kitty_check(v) == v >= 0

\* the rows of .eq('chama_id', chamaId).eq('status', 'completed')
CompletedContributionsAnyChama(c) ==
    {x \in contributions : x.status = "completed"}

CompletedContributions(c) ==
    {x \in contributions : x.chama_id = c /\ x.status = "completed"}

\* ----------------------------------------------- ContributionService
\* recordContribution(contributionData): entry up to the first await
recordContribution(s) ==
    /\ CanStart(s)
    /\ calls < MaxContribs
    /\ \E u \in Callers, c \in Chamas, a \in Amounts, t \in Codes :
         \E m \in {r.id : r \in {x \in chama_members : x.chama_id = c}} :
           sess' = [sess EXCEPT ![s] =
                      [Frame EXCEPT !.pc = "rc_member", !.user = u, !.chama = c,
                                    !.member = m, !.amount = a, !.code = t]]
    /\ calls' = calls + 1
    /\ UNCHANGED <<impl, serial, dbRest, chama_members, dbLedger, dbVote>>

\* membership lookup and amount validation of the secure generation
AmountAccepted(a) == a > 0

rcVerifyMember(s) ==
    /\ sess[s].pc = "rc_member"
    /\ sess' = [sess EXCEPT ![s] =
         IF impl = "lib" THEN [@ EXCEPT !.pc = "rc_insert"]
         ELSE IF verifyChamaMembership(sess[s].chama, sess[s].user) = NoId
              THEN Return("NotAMember", NoId)
         ELSE IF ~AmountAccepted(sess[s].amount)
              THEN Return("InvalidAmount", NoId)
         ELSE [@ EXCEPT !.pc = "rc_insert"]]
    /\ UNCHANGED <<impl, serial, dbRest, chama_members, calls, dbLedger, dbVote>>

\* the row written by .insert([{...contributionData, status: 'completed'}])
ContributionRow(id, f) ==
    [id |-> id, chama_id |-> f.chama, member_id |-> f.member,
     amount |-> f.amount, transaction_code |-> f.code, status |-> "completed"]

\* the generated primary key: what tells apart rows equal in every other column
FreshContributionId(f) ==
    1 + Cardinality({x \in contributions :
                        [x EXCEPT !.id = NoId] = ContributionRow(NoId, f)})

rcInsert(s) ==
    /\ sess[s].pc = "rc_insert"
    /\ LET id == FreshContributionId(sess[s])
       IN  /\ contributions' = contributions \cup {ContributionRow(id, sess[s])}
           /\ sess' = [sess EXCEPT ![s] = [@ EXCEPT !.pc = "rc_sum", !.retId = id]]
    /\ UNCHANGED <<impl, serial, dbRest, chama_members, calls, total_kitty, dbVote>>

\* updateChamaTotal: select the completed amounts and reduce them
rcSelectCompleted(s) ==
    /\ sess[s].pc = "rc_sum"
    /\ sess' = [sess EXCEPT ![s] =
         [@ EXCEPT !.pc = "rc_update",
                   !.tv = SumAmounts(CompletedContributions(sess[s].chama))]]
    /\ UNCHANGED <<impl, serial, dbRest, chama_members, calls, dbLedger, dbVote>>

\* updateChamaTotal: update({ total_kitty: total }); its result is not read
rcUpdateTotal(s) ==
    /\ sess[s].pc = "rc_update"
    /\ total_kitty' =
         IF chamas_total_kitty_check(sess[s].tv)
         THEN [total_kitty EXCEPT ![sess[s].chama] = sess[s].tv]
         ELSE total_kitty
    /\ sess' = [sess EXCEPT ![s] = Return("success", sess[s].retId)]
    /\ UNCHANGED <<impl, serial, dbRest, chama_members, calls, contributions, dbVote>>


\* ------------------------------------------------------- PayoutService
\* UNIQUE(payout_request_id, member_id) of table payout_votes
payout_votes_unique_dropped(rows, r, m) == TRUE

payout_votes_unique(rows, r, m) ==
    ~\E v \in rows : v.payout_request_id = r /\ v.member_id = m

VotesOf(r) == {v \in payout_votes : v.payout_request_id = r}
MembersOf(c) == {m \in chama_members : m.chama_id = c}

\* voteOnPayout(requestId, vote): entry up to the first store read.
\* The attempt gate (checkRateLimit) admits five calls per user and minute and
\* is cleared by a successful vote; the call bounds stay within what it admits.
voteOnPayout(s) ==
    /\ CanStart(s)
    /\ calls < (IF serial THEN MaxSeqCalls ELSE MaxCalls)
    /\ \E u \in Users, r \in DOMAIN payout_requests, v \in VoteTypes :
         /\ sess' = [sess EXCEPT ![s] =
                       [Frame EXCEPT !.pc = "v_request", !.user = u,
                                     !.req = r, !.vote = v]]
         /\ cast' = IF serial THEN [cast EXCEPT ![r][u] = @ \cup {v}] ELSE cast
    /\ calls' = calls + 1
    /\ UNCHANGED <<impl, serial, dbRest, chama_members, dbLedger,
                   payout_requests, payout_votes>>

\* the open-for-voting test on the status read with the request
VotingOpenAlways(st) == TRUE

VotingOpen(st) == st = "pending"

\* select chama_id (secure: and status) of the request
voteGetRequest(s) ==
    /\ sess[s].pc = "v_request"
    /\ sess' = [sess EXCEPT ![s] =
         IF sess[s].req \notin DOMAIN payout_requests
         THEN Return("NotFound", NoId)
         ELSE IF impl = "secure" /\ ~VotingOpen(payout_requests[sess[s].req].status)
         THEN Return("VotingClosed", NoId)
         ELSE [@ EXCEPT !.pc = "v_member",
                        !.chama = payout_requests[sess[s].req].chama_id]]
    /\ UNCHANGED <<impl, serial, dbRest, chama_members, calls, dbLedger, dbVote>>

voteVerifyMember(s) ==
    /\ sess[s].pc = "v_member"
    /\ LET mid == verifyChamaMembership(sess[s].chama, sess[s].user)
       IN  sess' = [sess EXCEPT ![s] =
             IF mid = NoId THEN Return("NotEligible", NoId)
             ELSE [@ EXCEPT !.pc = "v_existing", !.mid = mid]]
    /\ UNCHANGED <<impl, serial, dbRest, chama_members, calls, dbLedger, dbVote>>

\* select id from payout_votes ... .single(): data only for exactly one row
voteCheckExisting(s) ==
    /\ sess[s].pc = "v_existing"
    /\ LET mine == {v \in VotesOf(sess[s].req) : v.member_id = sess[s].mid}
       IN  sess' = [sess EXCEPT ![s] =
             IF Cardinality(mine) = 1 THEN Return("AlreadyVoted", NoId)
             ELSE [@ EXCEPT !.pc = "v_insert"]]
    /\ UNCHANGED <<impl, serial, dbRest, chama_members, calls, dbLedger, dbVote>>

\* the generated primary key: what tells apart rows of one (request, member)
FreshVoteId(r, m) ==
    1 + Cardinality({v \in payout_votes :
                        v.payout_request_id = r /\ v.member_id = m})

voteInsert(s) ==
    /\ sess[s].pc = "v_insert"
    /\ IF payout_votes_unique(payout_votes, sess[s].req, sess[s].mid)
       THEN /\ payout_votes' = payout_votes \cup
                 {[id |-> FreshVoteId(sess[s].req, sess[s].mid),
                   payout_request_id |-> sess[s].req,
                   member_id |-> sess[s].mid, vote |-> sess[s].vote]}
            /\ sess' = [sess EXCEPT ![s] = [@ EXCEPT !.pc = "cvs_votes"]]
       ELSE /\ sess' = [sess EXCEPT ![s] = Return("VoteFailed", NoId)]
            /\ UNCHANGED payout_votes
    /\ UNCHANGED <<impl, serial, dbRest, chama_members, calls, dbLedger,
                   payout_requests, cast>>

\* approveVotes > totalVotes / 2
Majority(av, tv) == 2 * av > tv

\* participationRate = totalVotes / totalMembers >= 0.5
Quorum(tv, tm) == 2 * tv >= tm

\* the decision of checkVoteStatus in src/unnamed/part_005
ResolveSecure(av, tv, tm) ==
    IF Majority(av, tv) /\ Quorum(tv, tm) THEN "approved"
    ELSE IF tv >= tm THEN "rejected"
    ELSE "none"

\* the decision of checkVoteStatus in src/lib/payouts.ts
ResolveLib(av, tv) == IF Majority(av, tv) THEN "approved" ELSE "none"

\* the rows of select('*').eq('payout_request_id', requestId)
cvsVotesUnfiltered(r) == payout_votes

cvsVotes(r) == {v \in payout_votes : v.payout_request_id = r}

\* checkVoteStatus: select * from payout_votes of the request
cvsSelectVotes(s) ==
    /\ sess[s].pc = "cvs_votes"
    /\ LET tv == Cardinality(cvsVotes(sess[s].req))
           av == Cardinality({v \in cvsVotes(sess[s].req) : v.vote = "approve"})
       IN  sess' = [sess EXCEPT ![s] =
             IF impl = "secure"
             THEN [@ EXCEPT !.pc = "cvs_members", !.tv = tv, !.av = av]
             ELSE IF ResolveLib(av, tv) = "none" THEN Return("success", NoId)
             ELSE [@ EXCEPT !.pc = "cvs_update", !.tv = tv, !.av = av,
                            !.decided = ResolveLib(av, tv)]]
    /\ UNCHANGED <<impl, serial, dbRest, chama_members, calls, dbLedger, dbVote>>

\* checkVoteStatus (secure): the request's chama_id, then its member rows
cvsSelectMembers(s) ==
    /\ sess[s].pc = "cvs_members"
    /\ LET n  == Cardinality(MembersOf(payout_requests[sess[s].req].chama_id))
           tm == IF n = 0 THEN 1 ELSE n
           d  == ResolveSecure(sess[s].av, sess[s].tv, tm)
       IN  /\ sess' = [sess EXCEPT ![s] =
                 IF d = "none" THEN Return("success", NoId)
                 ELSE [@ EXCEPT !.pc = "cvs_update", !.decided = d]]
           /\ payoutAttempts' = IF d = "none" THEN ResetAttempts("vote", sess[s].user)
                                ELSE payoutAttempts
    /\ UNCHANGED <<impl, serial, dbNoAttempts, chama_members, calls, dbLedger, dbVote>>

\* the rows update({ status }).eq('id', requestId) applies to
StatusUpdateApplies(st) == TRUE

\* checkVoteStatus: update payout_requests set status where id = requestId
cvsUpdateStatus(s) ==
    /\ sess[s].pc = "cvs_update"
    /\ payout_requests' =
         IF StatusUpdateApplies(payout_requests[sess[s].req].status)
         THEN [payout_requests EXCEPT ![sess[s].req].status = sess[s].decided]
         ELSE payout_requests
    /\ sess' = [sess EXCEPT ![s] = Return("success", NoId)]
    /\ payoutAttempts' = ResetAttempts("vote", sess[s].user)
    /\ UNCHANGED <<impl, serial, dbNoAttempts, chama_members, calls, dbLedger,
                   payout_votes, cast>>

\* ------------------------------------------------------------ initial states
InitMembers(n) ==
    {[id |-> u, chama_id |-> "c1", user_id |-> u,
      role |-> IF u = 1 THEN "chairperson" ELSE "member",
      is_active |-> TRUE] : u \in 1..n}
    \cup {[id |-> MaxMembers + 1, chama_id |-> "c2", user_id |-> 1,
           role |-> "chairperson", is_active |-> TRUE]}

InitCommon ==
    /\ impl \in Impls
    /\ total_kitty = [c \in Chamas |-> 0]
    /\ contributions = {}
    /\ payout_votes = {}
    /\ calls = 0
    /\ cast = [r \in RequestIds |-> [u \in Users |-> {}]]
    /\ sess = [s \in Sessions |-> Frame]

\* the chamas of the value set, each created by user 1 and found by an invite
\* code of its own
ChamaRow(c, u) == [id |-> c, invite_code |-> c, created_by |-> u, is_active |-> TRUE]

\* the tables and the process state the services below do not touch
InitOther ==
    /\ chamas = {ChamaRow(c, 1) : c \in Chamas}
    /\ transactions = {}
    /\ transaction_logs = {}
    /\ payoutAttempts = [i \in RateLimitIds |-> NoAttempt]
    /\ dateNow = 0

\* the defaults of the columns and tables the ledger and the votes leave alone
InitRest ==
    /\ contribution_amount = [c \in Chamas |-> 1]
    /\ disbursement_logs = {}
    /\ loan_repayments = {}
    /\ clock = 0
    /\ InitOther

InitLedger ==
    /\ InitCommon
    /\ InitRest
    /\ serial = FALSE
    /\ chama_members = InitMembers(1)
    /\ payout_requests = <<>>

NextLedger ==
    \E s \in Sessions :
        \/ recordContribution(s)
        \/ rcVerifyMember(s)
        \/ rcInsert(s)
        \/ rcSelectCompleted(s)
        \/ rcUpdateTotal(s)

SpecLedger == InitLedger /\ [][NextLedger]_vars

InitRequests(ids) ==
    [r \in ids |-> [chama_id |-> "c1", member_id |-> 1, amount |-> 1,
                    status |-> "pending"]]

VoteActions(s) ==
    \/ voteOnPayout(s)
    \/ voteGetRequest(s)
    \/ voteVerifyMember(s)
    \/ voteCheckExisting(s)
    \/ voteInsert(s)
    \/ cvsSelectVotes(s)
    \/ cvsSelectMembers(s)
    \/ cvsUpdateStatus(s)

NextVote == \E s \in Sessions : VoteActions(s)

\* concurrent voting on one request
InitVote ==
    /\ InitCommon
    /\ InitRest
    /\ serial = FALSE
    /\ \E n \in 1..MaxMembers : chama_members = InitMembers(n)
    /\ payout_requests = InitRequests({"r1"})

SpecVote == InitVote /\ [][NextVote]_vars

\* votes submitted one after another, on two requests of the same chama
InitVoteSeq ==
    /\ InitCommon
    /\ InitRest
    /\ serial = TRUE
    /\ \E n \in 1..MaxMembers : chama_members = InitMembers(n)
    /\ payout_requests = InitRequests({"r1", "r2"})

SpecVoteSeq == InitVoteSeq /\ [][NextVote]_vars

\* ------------------------------------------------------------ properties
Quiescent == \A s \in Sessions : IsIdle(s)
Status(r) == payout_requests[r].status
Stored(r) == {v \in payout_votes : v.payout_request_id = r}
StoredApprove(r) == {v \in Stored(r) : v.vote = "approve"}
NumVotes(r) == Cardinality(Stored(r))
NumApprove(r) == Cardinality(StoredApprove(r))
NumMembers(r) ==
    Cardinality({m \in chama_members : m.chama_id = payout_requests[r].chama_id})
Completed(c) == {x \in contributions : x.chama_id = c /\ x.status = "completed"}
Disbursed(c) ==
    {payout_requests[r] : r \in {q \in DOMAIN payout_requests :
        payout_requests[q].chama_id = c /\ payout_requests[q].status = "paid"}}
ApprovalHolds(r) ==
    /\ 2 * NumApprove(r) > NumVotes(r)
    /\ 2 * NumVotes(r) >= NumMembers(r)

\* C1: in every reachable state, for every chama, total_kitty equals the sum
\* of its completed contributions minus the sum of its disbursed requests.
C1_BalanceMatchesLedger ==
    \A c \in Chamas :
        total_kitty[c] = SumAmounts(Completed(c)) - SumAmounts(Disbursed(c))

C3_OneVotePerMember ==
    \A v, w \in payout_votes :
        (v.payout_request_id = w.payout_request_id /\ v.member_id = w.member_id)
            => v = w

\* C3 witness: two calls of one member on one request both passed the
\* existing-vote lookup; one inserted, the other insert was refused.
C3_Witness ==
    \E s \in Sessions :
        /\ sess[s].result = "VoteFailed"
        /\ payout_votes # {}

C5_OneRecordPerExternalRef ==
    \A x, y \in contributions :
        (x.transaction_code = y.transaction_code /\ x.transaction_code # NoCode)
            => x = y

\* C6: a request is approved only when, over its stored votes and the member
\* count, approveVotes > totalVotes/2 and totalVotes/totalMembers >= 0.5.
C6_ApprovedOnlyWithMajorityAndQuorum ==
    \A r \in DOMAIN payout_requests :
        Status(r) = "approved" => ApprovalHolds(r)

\* C7: secure generation, once the calls have returned: after an accepted vote
\* for which the approval condition does not hold, the request is rejected
\* exactly when totalVotes >= totalMembers, and is pending otherwise.
C7_RejectedExactlyOnFullParticipation ==
    (impl = "secure" /\ Quiescent) =>
        \A r \in DOMAIN payout_requests :
            (NumVotes(r) >= 1 /\ ~ApprovalHolds(r)) =>
                Status(r) = (IF NumVotes(r) >= NumMembers(r) THEN "rejected"
                             ELSE "pending")

\* C8: secure generation, once the calls have returned: when every member has
\* a stored vote and approve votes equal reject votes, the request is rejected.
C8_TieIsRejected ==
    (impl = "secure" /\ Quiescent) =>
        \A r \in DOMAIN payout_requests :
            (/\ NumVotes(r) = NumMembers(r)
             /\ 2 * NumApprove(r) = NumVotes(r)
             /\ NumVotes(r) >= 2)
                => Status(r) = "rejected"

\* C9: once a request is approved or rejected, no step changes its status.
C9_TerminalStatusFinal ==
    [][\A r \in DOMAIN payout_requests :
          Status(r) \in {"approved", "rejected"}
              => payout_requests'[r].status = Status(r)]_vars

\* C10: every vote row is inserted while its request is pending.
C10_VotesOnlyWhilePending ==
    [][\A v \in payout_votes' \ payout_votes :
          Status(v.payout_request_id) = "pending"]_vars

\* the three rejections of voteOnPayout
VoteErrors == {"VotingClosed", "NotEligible", "AlreadyVoted"}

HasVote(r, m) == \E v \in payout_votes : v.payout_request_id = r /\ v.member_id = m

\* what C11 says of one step of handler s
C11_Step(s) ==
    LET f == sess[s]
        g == sess'[s]
    IN  f # g =>
        /\ (f.pc = "v_request" /\ f.req \in DOMAIN payout_requests
                /\ Status(f.req) # "pending")
               => g.pc = "idle" /\ g.result = "VotingClosed"
        /\ (f.pc = "v_member" /\ MemberRows(f.chama, f.user) = {})
               => g.pc = "idle" /\ g.result = "NotEligible"
        /\ (f.pc = "v_existing" /\ HasVote(f.req, f.mid))
               => g.pc = "idle" /\ g.result = "AlreadyVoted"
        /\ g.result \in VoteErrors
               => /\ f.pc \in {"v_request", "v_member", "v_existing"}
                  /\ payout_votes' = payout_votes
                  /\ payout_requests' = payout_requests
        /\ g.pc = "v_insert"
               => /\ g.mid \in
                      {m.id : m \in MembersOf(payout_requests[g.req].chama_id)}
                  /\ ~HasVote(g.req, g.mid)

MPESA_MIN_AMOUNT == 1
MPESA_MAX_AMOUNT == 150000

\* SecurityUtils.validateAmount of the M-Pesa service (part_003: the inline test)
mpesaValidateAmount(a) == a >= MPESA_MIN_AMOUNT /\ a <= MPESA_MAX_AMOUNT

\* disburseFunds(phoneNumber, amount, reference, userId, chamaId): the caller
\* pays out the amount of a request and names the request as the reference
disburseFunds(s) ==
    /\ CanStart(s)
    /\ calls < MaxDisburse
    /\ \E u \in Users, c \in Chamas, r \in DOMAIN payout_requests :
         sess' = [sess EXCEPT ![s] =
                    [Frame EXCEPT !.pc = "d_validate", !.user = u, !.chama = c,
                                  !.amount = payout_requests[r].amount,
                                  !.req = r]]
    /\ calls' = calls + 1
    /\ UNCHANGED <<impl, serial, dbRest, chama_members, dbLedger, dbVote>>

\* input validation; part_003 returns success right after it
dfValidate(s) ==
    /\ sess[s].pc = "d_validate"
    /\ sess' = [sess EXCEPT ![s] =
         IF ~mpesaValidateAmount(sess[s].amount)
         THEN Return("InvalidAmount", NoId)
         ELSE IF impl = "lib" THEN Return("success", NoId)
         ELSE [@ EXCEPT !.pc = "d_auth"]]
    /\ UNCHANGED <<impl, serial, dbRest, chama_members, calls, dbLedger, dbVote>>

\* the roles verifyDisbursementAuthorization lets through
DisbursementRolesAll == {"chairperson", "treasurer", "secretary", "member"}

DisbursementRoles == {"chairperson", "treasurer"}

\* verifyDisbursementAuthorization(chamaId, userId)
dfAuthorize(s) ==
    /\ sess[s].pc = "d_auth"
    /\ LET rows == MemberRows(sess[s].chama, sess[s].user)
       IN  sess' = [sess EXCEPT ![s] =
             IF Cardinality(rows) # 1 THEN Return("NotAMember", NoId)
             ELSE IF (CHOOSE m \in rows : TRUE).role \notin DisbursementRoles
                  THEN Return("NotAuthorized", NoId)
             ELSE [@ EXCEPT !.pc = "d_log"]]
    /\ UNCHANGED <<impl, serial, dbRest, chama_members, calls, dbLedger, dbVote>>

\* the row of disbursementData
DisbursementRow(id, f) ==
    [id |-> id, chama_id |-> f.chama, initiated_by |-> f.user,
     amount |-> f.amount, reference |-> f.req, status |-> "pending"]

FreshDisbursementId(f) ==
    1 + Cardinality({x \in disbursement_logs :
                        [x EXCEPT !.id = NoId] = DisbursementRow(NoId, f)})

\* insert into disbursement_logs, then the B2C call that is still to be written
dfLog(s) ==
    /\ sess[s].pc = "d_log"
    /\ LET id == FreshDisbursementId(sess[s])
       IN  /\ disbursement_logs' = disbursement_logs \cup {DisbursementRow(id, sess[s])}
           /\ sess' = [sess EXCEPT ![s] = Return("success", id)]
    /\ UNCHANGED <<impl, serial, contribution_amount, loan_repayments, clock, dbOther,
                   chama_members, calls, dbLedger, dbVote>>
\* the roles of the members of chama c1
RoleOfUser(u) ==
    IF u = 1 THEN "chairperson" ELSE IF u = 2 THEN "treasurer"
    ELSE IF u = 3 THEN "member" ELSE "secretary"

DisburseMembers ==
    {[id |-> u, chama_id |-> "c1", user_id |-> u, role |-> RoleOfUser(u),
      is_active |-> TRUE] :
        u \in Users}
    \cup {[id |-> MaxMembers + 1, chama_id |-> "c2", user_id |-> 1,
           role |-> "chairperson", is_active |-> TRUE]}

RequestStatuses == {"pending", "approved", "rejected", "paid"}

\* a row of payout_requests of chama c1, asked by its chairperson
RequestRow(a, st, kind, rate, months) ==
    [chama_id |-> "c1", member_id |-> 1, amount |-> a, status |-> st,
     request_type |-> kind, interest_rate |-> rate, repayment_period |-> months]

\* 8,000 and 7,000 asked against a fund of 10,000; or, in place of the 7,000,
\* a loan of 3,000 at 10% over 3 months
InitDisburse ==
    /\ impl \in Impls
    /\ serial = FALSE
    /\ total_kitty = [c \in Chamas |-> IF c = "c1" THEN 10000 ELSE 0]
    /\ contribution_amount = [c \in Chamas |-> 1000]
    /\ chama_members = DisburseMembers
    /\ contributions = {}
    /\ payout_votes = {}
    /\ \E st \in RequestStatuses, loan \in BOOLEAN :
         payout_requests =
           [r \in RequestIds |->
              IF r = "r1" THEN RequestRow(8000, "approved", "payout", Null, Null)
              ELSE IF loan THEN RequestRow(3000, st, "loan", 10, 3)
              ELSE RequestRow(7000, st, "payout", Null, Null)]
    /\ calls = 0
    /\ cast = [r \in RequestIds |-> [u \in Users |-> {}]]
    /\ sess = [s \in Sessions |-> Frame]
    /\ disbursement_logs = {}
    /\ loan_repayments = {}
    /\ clock = 0
    /\ InitOther

NextDisburse ==
    \E s \in Sessions :
        \/ disburseFunds(s)
        \/ dfValidate(s)
        \/ dfAuthorize(s)
        \/ dfLog(s)

SpecDisburse == InitDisburse /\ [][NextDisburse]_vars

\* the requests a disbursement has been logged for, and what was paid out
LogsOf(c) == {x \in disbursement_logs : x.chama_id = c}
ExecutedFor(r) == \E x \in disbursement_logs : x.reference = r
FundAtStart(c) == IF c = "c1" THEN 10000 ELSE 0

\* C12: of two approved requests for 8,000 and 7,000 against a fund of 10,000,
\* one is paid out and debits the fund, the other is refused: in every state
\* the fund is what it was less what has been paid out, what has been paid
\* out is covered by it, and not both requests have been paid out.
C12_OneOfTwoExecutesSucceeds ==
    /\ \A c \in Chamas :
         /\ total_kitty[c] = FundAtStart(c) - SumAmounts(LogsOf(c))
         /\ SumAmounts(LogsOf(c)) <= FundAtStart(c)
    /\ ~(ExecutedFor("r1") /\ ExecutedFor("r2"))

\* C13: a disbursement is recorded only for a request that is approved and
\* has no disbursement yet.
C13_DisbursedOnlyWhenApproved ==
    [][\A x \in disbursement_logs' \ disbursement_logs :
          /\ Status(x.reference) = "approved"
          /\ ~ExecutedFor(x.reference)]_vars

\* what C14 says of one step of handler s
C14_Step(s) ==
    LET f == sess[s]
        g == sess'[s]
        rows == {m \in chama_members : m.chama_id = f.chama /\ m.user_id = f.user}
    IN  (f # g /\ f.pc \in {"d_auth", "d_log"}) =>
          IF \E m \in rows : m.role \in {"chairperson", "treasurer"}
          THEN g.result \notin {"NotAMember", "NotAuthorized"}
          ELSE /\ g.pc = "idle"
               /\ g.result = (IF rows = {} THEN "NotAMember" ELSE "NotAuthorized")
               /\ disbursement_logs' = disbursement_logs

InstallmentsOf(r) == {x \in loan_repayments : x.payout_request_id = r}

\* C19: once a loan of amount A at rate r over n months has been paid out,
\* it has exactly n installments, all of the same amount, and their sum is
\* A x (1 + r/100).
C19_InstallmentsSumToRepayable ==
    \A q \in DOMAIN payout_requests :
        (payout_requests[q].request_type = "loan" /\ ExecutedFor(q)) =>
            /\ Cardinality(InstallmentsOf(q)) = payout_requests[q].repayment_period
            /\ \A x, y \in InstallmentsOf(q) : x.amount = y.amount
            /\ 100 * SumAmounts(InstallmentsOf(q)) =
                   payout_requests[q].amount * (100 + payout_requests[q].interest_rate)

\* ------------------------------------------- PayoutService.requestPayout
PAYOUT_MIN_AMOUNT == 1
PAYOUT_MAX_AMOUNT == 1000000
MIN_PURPOSE_LENGTH == 5
MAX_PURPOSE_LENGTH == 500
MAX_PAYOUT_MULTIPLE == 10

\* SecurityUtils.validateAmount of src/unnamed/part_005
payoutValidateAmount(a) == a >= PAYOUT_MIN_AMOUNT /\ a <= PAYOUT_MAX_AMOUNT

\* JavaScript !x on an optional number: true for undefined and for 0
Falsy(x) == x = Null \/ x = 0

\* the loan branch of validatePayoutRequest
LoanTermsAccepted(rate, months) ==
    /\ ~(Falsy(rate) \/ rate < 0 \/ rate > 100)
    /\ ~(Falsy(months) \/ months < 1 \/ months > 36)

\* validatePayoutRequest of src/unnamed/part_005: the first error, or "ok"
validatePayoutRequest(f) ==
    IF ~payoutValidateAmount(f.amount) THEN "InvalidAmount"
    ELSE IF f.plen < MIN_PURPOSE_LENGTH THEN "PurposeTooShort"
    ELSE IF f.plen > MAX_PURPOSE_LENGTH THEN "PurposeTooLong"
    ELSE IF f.kind = "loan" /\ ~LoanTermsAccepted(f.rate, f.months)
         THEN "InvalidLoanTerms"
    ELSE "ok"

\* the input validation of requestPayout in src/lib/payouts.ts
validateLib(f) ==
    IF f.amount <= 0 THEN "InvalidAmount"
    ELSE IF f.plen < 5 THEN "PurposeTooShort"
    ELSE "ok"

\* SecurityUtils.sanitizeInput(purpose): the length left after the listed
\* characters are removed and the text is cut at MAX_PURPOSE_LENGTH
SanitizedLength(len, bad) ==
    IF len - bad > MAX_PURPOSE_LENGTH THEN MAX_PURPOSE_LENGTH ELSE len - bad

\* the CHECK constraints of table payout_requests
payout_requests_checks(f) ==
    /\ f.amount > 0
    /\ f.kind \in {"payout", "loan"}
    /\ (f.rate = Null \/ (f.rate >= 0 /\ f.rate <= 100))
    /\ (f.months = Null \/ (f.months >= 1 /\ f.months <= 36))
    /\ SanitizedLength(f.plen, f.pbad) >= 5
    /\ SanitizedLength(f.plen, f.pbad) <= 500
    /\ ((f.kind = "loan" /\ f.rate # Null /\ f.months # Null) \/ f.kind = "payout")

\* the arguments of a call: requests that differ from a well-formed one in the
\* caller, the amount and the loan terms, or in the purpose
RequestAmounts == {0, 5, 11}
RequestTerms ==
    {<<"payout", Null, Null>>, <<"payout", 10, 3>>,
     <<"loan", Null, 3>>, <<"loan", 0, 3>>, <<"loan", 101, 3>>,
     <<"loan", 10, Null>>, <<"loan", 10, 37>>, <<"loan", 100, 36>>}
RequestInputs ==
    {[user |-> u, amount |-> a, kind |-> t[1], rate |-> t[2], months |-> t[3],
      plen |-> 5, pbad |-> 0] : u \in Callers, a \in RequestAmounts, t \in RequestTerms}
    \cup {[user |-> 1, amount |-> 5, kind |-> "payout", rate |-> Null,
           months |-> Null, plen |-> l[1], pbad |-> l[2]] :
             l \in {<<4, 0>>, <<5, 1>>}}

\* requestPayout(requestData): entry up to the first await
requestPayout(s) ==
    /\ CanStart(s)
    /\ calls < MaxRequests
    /\ \E i \in RequestInputs :
         sess' = [sess EXCEPT ![s] =
                    [Frame EXCEPT !.pc = "rp_member", !.user = i.user,
                                  !.chama = "c1", !.amount = i.amount,
                                  !.kind = i.kind, !.rate = i.rate,
                                  !.months = i.months, !.plen = i.plen,
                                  !.pbad = i.pbad]]
    /\ calls' = calls + 1
    /\ UNCHANGED <<impl, serial, dbRest, chama_members, dbLedger, dbVote>>

\* input validation, then the membership lookup
rpVerifyMember(s) ==
    /\ sess[s].pc = "rp_member"
    /\ LET v   == IF impl = "secure" THEN validatePayoutRequest(sess[s])
                  ELSE validateLib(sess[s])
           mid == verifyChamaMembership(sess[s].chama, sess[s].user)
       IN  sess' = [sess EXCEPT ![s] =
             IF v # "ok" THEN Return(v, NoId)
             ELSE IF mid = NoId THEN Return("NotAMember", NoId)
             ELSE [@ EXCEPT !.pc = "rp_chama", !.mid = mid]]
    /\ UNCHANGED <<impl, serial, dbRest, chama_members, calls, dbLedger, dbVote>>

\* the limit on the amount: a multiple of the chama's contribution amount
WithinLimit(a, contribution) == a <= contribution * MAX_PAYOUT_MULTIPLE

\* select total_kitty (secure: and contribution_amount) of the chama
rpSelectChama(s) ==
    /\ sess[s].pc = "rp_chama"
    /\ sess' = [sess EXCEPT ![s] =
         IF total_kitty[sess[s].chama] < sess[s].amount
         THEN Return("InsufficientFunds", NoId)
         ELSE IF impl = "secure"
                 /\ ~WithinLimit(sess[s].amount, contribution_amount[sess[s].chama])
         THEN Return("AmountExceedsLimit", NoId)
         ELSE [@ EXCEPT !.pc = "rp_insert"]]
    /\ UNCHANGED <<impl, serial, dbRest, chama_members, calls, dbLedger, dbVote>>

\* the row of payoutRequestData
PayoutRequestRowApproved(f) ==
    [chama_id |-> f.chama, member_id |-> f.mid, amount |-> f.amount,
     status |-> "approved", request_type |-> f.kind,
     interest_rate |-> f.rate, repayment_period |-> f.months]

PayoutRequestRow(f) ==
    [chama_id |-> f.chama, member_id |-> f.mid, amount |-> f.amount,
     status |-> "pending", request_type |-> f.kind,
     interest_rate |-> f.rate, repayment_period |-> f.months]

\* the generated primary key
FreshRequestId == CHOOSE r \in RequestIds \ DOMAIN payout_requests : TRUE

\* insert into payout_requests ... select().single()
rpInsert(s) ==
    /\ sess[s].pc = "rp_insert"
    /\ IF payout_requests_checks(sess[s]) /\ DOMAIN payout_requests # RequestIds
       THEN /\ payout_requests' =
                 [r \in DOMAIN payout_requests \cup {FreshRequestId} |->
                    IF r \in DOMAIN payout_requests THEN payout_requests[r]
                    ELSE PayoutRequestRow(sess[s])]
            /\ sess' = [sess EXCEPT ![s] = Return("success", NoId)]
            /\ payoutAttempts' = ResetAttempts("payoutRequest", sess[s].user)
       ELSE /\ sess' = [sess EXCEPT ![s] = Return("InsertFailed", NoId)]
            /\ UNCHANGED <<payout_requests, payoutAttempts>>
    /\ UNCHANGED <<impl, serial, dbNoAttempts, chama_members, calls, dbLedger,
                   payout_votes, cast>>

\* one chama with a fund of 3 or of 20 and a contribution amount of 1;
\* user 1 is its only member
InitRequest ==
    /\ impl \in Impls
    /\ serial = FALSE
    /\ chama_members = InitMembers(1)
    /\ contributions = {}
    /\ payout_requests = <<>>
    /\ payout_votes = {}
    /\ calls = 0
    /\ cast = [r \in RequestIds |-> [u \in Users |-> {}]]
    /\ sess = [s \in Sessions |-> Frame]
    /\ \E k \in {3, 20} : total_kitty = [c \in Chamas |-> k]
    /\ contribution_amount = [c \in Chamas |-> 1]
    /\ disbursement_logs = {}
    /\ loan_repayments = {}
    /\ clock = 0
    /\ InitOther

NextRequest ==
    \E s \in Sessions :
        \/ requestPayout(s)
        \/ rpVerifyMember(s)
        \/ rpSelectChama(s)
        \/ rpInsert(s)

SpecRequest == InitRequest /\ [][NextRequest]_vars

\* the request rows a step adds
NewRequests == {payout_requests'[r] : r \in DOMAIN payout_requests' \ DOMAIN payout_requests}

\* C15: a request row is created only for a requester who is a member of the
\* chama and an amount that is positive, at most the chama's balance and at
\* most 10 times its contribution amount; a call that returns an error
\* creates no row.
C15_ProposalOnlyWhenValid ==
    [][/\ \A x \in NewRequests :
            /\ \E m \in chama_members : m.id = x.member_id /\ m.chama_id = x.chama_id
            /\ x.amount > 0
            /\ x.amount <= total_kitty[x.chama_id]
            /\ x.amount <= 10 * contribution_amount[x.chama_id]
       /\ \A s \in Sessions :
            (sess'[s] # sess[s] /\ sess'[s].pc = "idle" /\ sess'[s].result # "success")
                => payout_requests' = payout_requests]_vars

\* C16: a step that creates a request row creates it pending, and no step of
\* requestPayout changes a balance, a contribution row or a membership row.
C16_ProposalMovesNoFunds ==
    [][/\ \A x \in NewRequests : x.status = "pending"
       /\ total_kitty' = total_kitty
       /\ contributions' = contributions
       /\ chama_members' = chama_members]_vars

\* C16 witness: a call has returned success, its request row is stored and
\* the fund is the 20 it was.
C16_Witness ==
    /\ Quiescent
    /\ \E s \in Sessions : sess[s].result = "success"
    /\ \E r \in DOMAIN payout_requests : Status(r) = "pending"
    /\ total_kitty["c1"] = 20

\* both loan terms supplied and in range
TermsValid(rate, months) ==
    /\ rate # Null /\ rate >= 0 /\ rate <= 100
    /\ months # Null /\ months >= 1 /\ months <= 36

\* what C17 says of one step of handler s
C17_Step(s) ==
    LET f == sess[s]
        g == sess'[s]
    IN  (f # g /\ f.kind = "loan" /\ g.pc = "idle") =>
          /\ (f.pc = "rp_member" /\ TermsValid(f.rate, f.months))
                => g.result # "InvalidLoanTerms"
          /\ f.pc = "rp_insert"
                => (g.result = "success" <=> TermsValid(f.rate, f.months))

\* C17: a loan request is turned down for its terms exactly when a term is
\* missing or out of [0, 100] for the rate and [1, 36] for the months, and a
\* stored request has loan terms if and only if it is a loan.
C17_LoanTermsAcceptedExactlyInRange ==
    [][/\ \A s \in Sessions : C17_Step(s)
       /\ \A x \in NewRequests :
            /\ x.request_type = "loan"
                 => TermsValid(x.interest_rate, x.repayment_period)
            /\ x.request_type = "loan"
                 <=> (x.interest_rate # Null /\ x.repayment_period # Null)]_vars

\* C18: once the calls have returned, a request on which every member of its
\* chama has a stored vote is no longer pending.
C18_FullParticipationResolves ==
    Quiescent =>
        \A r \in DOMAIN payout_requests :
            NumVotes(r) >= NumMembers(r) => Status(r) # "pending"

\* ------------------------------------ Disbursement & Repayment Tracker
\* The repository declares the table loan_repayments and has no statement
\* that reads or writes it; recordRepayment and accruePenalties are taken
\* from the design document (section 4.5).
CycleDays == 2
PENALTY == 50
GRACE_MULTIPLE == 1

\* the overdue check cycle a date falls in
CycleOf(day) == day \div CycleDays

\* a row of loan_repayments, with the penalty tracking state of the design
\* document: the check cycle the installment was last penalised in
InstallmentRow(k, r, a, due) ==
    [id |-> k, payout_request_id |-> r, amount |-> a, due_date |-> due,
     is_paid |-> FALSE, penalty_amount |-> 0, penalised_cycle |-> Null]

\* penalty only for an unpaid installment whose due date has passed
Overdue(x, now) == ~x.is_paid /\ x.due_date < now

\* once per check cycle
NotYetPenalisedAlways(x, now) == TRUE

NotYetPenalised(x, now) == x.penalised_cycle # CycleOf(now)

\* overdue beyond the grace multiple of the repayment period
BeyondGrace(x, now) ==
    /\ Overdue(x, now)
    /\ now - x.due_date >
         GRACE_MULTIPLE * payout_requests[x.payout_request_id].repayment_period
                        * CycleDays

\* accruePenalties(now)
accruePenalties ==
    /\ calls < MaxAccruals
    /\ \E now \in 1..MaxDay :
         /\ now >= clock
         /\ clock' = now
         /\ loan_repayments' =
              {IF Overdue(x, now) /\ NotYetPenalised(x, now)
               THEN [x EXCEPT !.penalty_amount = @ + PENALTY,
                              !.penalised_cycle = CycleOf(now)]
               ELSE x : x \in loan_repayments}
         /\ payout_requests' =
              [r \in DOMAIN payout_requests |->
                 IF \E x \in loan_repayments :
                        x.payout_request_id = r /\ BeyondGrace(x, now)
                 THEN [payout_requests[r] EXCEPT !.status = "defaulted"]
                 ELSE payout_requests[r]]
    /\ calls' = calls + 1
    /\ UNCHANGED <<impl, serial, contribution_amount, disbursement_logs, dbOther,
                   chama_members, dbLedger, payout_votes, cast, sess>>

\* recordRepayment(installmentId, paymentRef)
recordRepayment ==
    \E x \in loan_repayments :
        /\ ~x.is_paid
        /\ payout_requests[x.payout_request_id].status = "repaying"
        /\ LET paid == [x EXCEPT !.is_paid = TRUE, !.penalised_cycle = Null]
               rows == (loan_repayments \ {x}) \cup {paid}
           IN  /\ loan_repayments' = rows
               /\ payout_requests' =
                    IF \A y \in rows :
                          y.payout_request_id = x.payout_request_id => y.is_paid
                    THEN [payout_requests EXCEPT
                            ![x.payout_request_id].status = "closed"]
                    ELSE payout_requests
        /\ UNCHANGED <<impl, serial, contribution_amount, disbursement_logs, clock, dbOther,
                       chama_members, calls, dbLedger, payout_votes, cast, sess>>

\* a loan of 3,000 at 10% over 2 months, paid out: 2 installments of 1,650,
\* the first due on day 0, 1 or 2, the second one cycle later
InitPenalty ==
    /\ impl \in Impls
    /\ serial = FALSE
    /\ total_kitty = [c \in Chamas |-> 0]
    /\ contribution_amount = [c \in Chamas |-> 1000]
    /\ chama_members = InitMembers(1)
    /\ contributions = {}
    /\ payout_votes = {}
    /\ payout_requests =
         [r \in {"r1"} |-> RequestRow(3000, "repaying", "loan", 10, 2)]
    /\ calls = 0
    /\ cast = [r \in RequestIds |-> [u \in Users |-> {}]]
    /\ sess = [s \in Sessions |-> Frame]
    /\ disbursement_logs = {}
    /\ \E due \in 0..CycleDays :
         loan_repayments = {InstallmentRow(k, "r1", 1650, due + (k - 1) * CycleDays) :
                               k \in 1..2}
    /\ clock = 0
    /\ InitOther

NextPenalty ==
    \/ accruePenalties
    \/ recordRepayment

SpecPenalty == InitPenalty /\ [][NextPenalty]_vars

\* the same installment before and after a step
Before(y) == CHOOSE x \in loan_repayments : x.id = y.id

\* a step taken in the check cycle of the latest maintenance run
SameCycleStep == clock >= 1 /\ CycleOf(clock') = CycleOf(clock)

\* whenever a penalty changes, the installment was unpaid and past its due
\* date and the configured penalty was added once
PenaltyOnlyWhenOverdue ==
    \A y \in loan_repayments' :
        y.penalty_amount # Before(y).penalty_amount =>
            /\ Overdue(Before(y), clock')
            /\ y.penalty_amount = Before(y).penalty_amount + PENALTY

\* a run in a new check cycle penalises every unpaid installment past its due date
PenaltyInNewCycle ==
    (clock' # clock /\ (clock = 0 \/ CycleOf(clock') # CycleOf(clock))) =>
        \A y \in loan_repayments' :
            Overdue(Before(y), clock') =>
                y.penalty_amount = Before(y).penalty_amount + PENALTY

UpdateTakesEffect(s) ==
    /\ sess[s].pc = "cvs_update"
    /\ sess'[s] # sess[s]
    /\ StatusUpdateApplies(Status(sess[s].req))

\* C21: a status update of a vote call takes effect only on a request that is
\* still pending, so at most one call moves a request out of pending.
C21_OneTransitionOutOfPending ==
    [][\A s \in Sessions :
          UpdateTakesEffect(s) => Status(sess[s].req) = "pending"]_vars


\* the moves of a request's status: request_status has pending, approved,
\* rejected, paid (disbursed) and defaulted; repaying and closed are the
\* loan states of the design document
StatusMoves ==
    {<<"pending", "approved">>, <<"pending", "rejected">>,
     <<"approved", "paid">>, <<"paid", "repaying">>,
     <<"repaying", "closed">>, <<"repaying", "defaulted">>}

\* C22: a step changes the status of a request only along pending ->
\* approved | rejected -> paid -> repaying -> closed | defaulted, and never
\* changes its amount.
C22_StatusForwardAmountFixed ==
    [][\A r \in DOMAIN payout_requests :
          /\ r \in DOMAIN payout_requests'
          /\ payout_requests'[r].amount = payout_requests[r].amount
          /\ \/ payout_requests'[r].status = Status(r)
             \/ <<Status(r), payout_requests'[r].status>> \in StatusMoves]_vars


\* ------------------------------------------------- membership changes
\* chama_members.is_active set to false by an administrator of the store
\* while a request is open; no service function changes the column
deactivateMember ==
    /\ \A m \in chama_members : m.is_active
    /\ \E m \in MembersOf("c1") :
         chama_members' = (chama_members \ {m}) \cup {[m EXCEPT !.is_active = FALSE]}
    /\ UNCHANGED <<impl, serial, dbRest, calls, dbLedger, dbVote, sess>>

\* votes on one request, one call after another, with a member deactivated
\* at any moment
InitDeactivate ==
    /\ InitCommon
    /\ InitRest
    /\ serial = TRUE
    /\ \E n \in 1..MaxMembers : chama_members = InitMembers(n)
    /\ payout_requests = InitRequests({"r1"})

NextDeactivate ==
    \/ \E s \in Sessions : VoteActions(s)
    \/ deactivateMember

SpecDeactivate == InitDeactivate /\ [][NextDeactivate]_vars

ActiveMembersOf(c) == {m \in MembersOf(c) : m.is_active}

\* totalActiveMembers of a request, read now
TotalActiveMembers(r) ==
    LET n == Cardinality(ActiveMembersOf(payout_requests[r].chama_id))
    IN  IF n = 0 THEN 1 ELSE n

C23_Step(s) ==
    LET f == sess[s]
        g == sess'[s]
    IN  f # g =>
        \* the votes counted are all the stored votes of the request
        /\ (f.pc = "cvs_votes" /\ g.pc = "cvs_members") =>
              g.tv = NumVotes(f.req) /\ g.av = NumApprove(f.req)
        \* the member count is that of the members active at the resolution
        /\ f.pc = "cvs_members" =>
              LET d == ResolveSecure(f.av, f.tv, TotalActiveMembers(f.req))
              IN  IF d = "none" THEN g.pc = "idle"
                  ELSE g.pc = "cvs_update" /\ g.decided = d

\* C23: a resolution counts every stored vote of the request, the votes of
\* deactivated members included, against the members that are active when it
\* runs; deactivating a member removes none of the votes.
C23_ResolutionCountsActiveMembers ==
    [][impl = "secure" =>
          /\ \A s \in Sessions : C23_Step(s)
          /\ chama_members' # chama_members => payout_votes' = payout_votes]_vars


\* C24: once concurrent recordContribution calls have all returned success,
\* the balance of each chama includes every contribution recorded for it.
C24_NoLostBalanceUpdate ==
    (/\ Quiescent
     /\ \A s \in Sessions : sess[s].result \in {"none", "success"}
     /\ \A x \in contributions : x.amount > 0)
        => \A c \in Chamas : total_kitty[c] >= SumAmounts(Completed(c))


C25_Step(s) ==
    LET f == sess[s]
        g == sess'[s]
    IN  (f # g /\ f.pc # "idle" /\ g.pc = "idle" /\ f.amount <= 0) =>
            /\ g.result # "success"
            /\ verifyChamaMembership(f.chama, f.user) # NoId
                  => g.result = "InvalidAmount"

\* C25: a recordContribution call with amount <= 0 returns the invalid-amount
\* error (to a member of the chama), no contribution row with such an amount
\* is inserted, and the steps of the call leave the balance unchanged.
C25_NonPositiveAmountRejected ==
    [][/\ \A s \in Sessions :
            /\ C25_Step(s)
            /\ (sess[s] # sess'[s] /\ sess[s].amount <= 0
                  /\ sess[s].pc \in {"rc_member", "rc_insert", "rc_sum", "rc_update"})
                 => total_kitty' = total_kitty /\ contributions' = contributions
       /\ \A x \in contributions' \ contributions : x.amount > 0]_vars


\* --------------------------------------------------------- ChamaService
\* The attempt gate of createChama and joinChama admits three calls per user
\* and minute; the call bound stays within what it admits.
NewChamaIds == <<"c3", "c4", "c5", "c6">>

\* UNIQUE(chama_id, user_id) of table chama_members
chama_members_unique_dropped(rows, c, u) == TRUE

chama_members_unique(rows, c, u) ==
    ~\E m \in rows : m.chama_id = c /\ m.user_id = u

\* chama_id REFERENCES chamas(id)
chama_members_chama_fk(c) == \E x \in chamas : x.id = c

\* the generated primary key of a new membership row
FreshMemberId ==
    1 + CHOOSE n \in 0..(MaxMembers + 2 * MaxChamaCalls + 2) :
            /\ \A m \in chama_members : m.id <= n
            /\ n = 0 \/ \E m \in chama_members : m.id = n

MemberRow(c, u, role) ==
    [id |-> FreshMemberId, chama_id |-> c, user_id |-> u, role |-> role,
     is_active |-> TRUE]

\* insert into chama_members: TRUE when the store accepts the row
MemberInsertAccepted(c, u) ==
    chama_members_chama_fk(c) /\ chama_members_unique(chama_members, c, u)

\* createChama(chamaData): entry up to the insert; valid is the outcome of
\* validateChamaData
createChama(s) ==
    /\ CanStart(s)
    /\ calls < MaxChamaCalls
    /\ \E u \in Callers, valid \in BOOLEAN :
         sess' = [sess EXCEPT ![s] =
            IF ~valid THEN Return("InvalidData", NoId)
            ELSE [Frame EXCEPT !.pc = "cc_insert", !.user = u,
                               !.chama = NewChamaIds[calls + 1]]]
    /\ calls' = calls + 1
    /\ UNCHANGED <<impl, serial, dbRest, chama_members, dbLedger, dbVote>>

\* insert into chamas ... select().single()
ccInsertChama(s) ==
    /\ sess[s].pc = "cc_insert"
    /\ chamas' = chamas \cup {ChamaRow(sess[s].chama, sess[s].user)}
    /\ sess' = [sess EXCEPT ![s] = [@ EXCEPT !.pc = "cc_member"]]
    /\ UNCHANGED <<impl, serial, contribution_amount, dbTracker, transactions,
                   transaction_logs, payoutAttempts, dateNow, chama_members,
                   calls, dbLedger, dbVote>>

\* addMemberWithVerification(data.id, user.id, 'chairperson')
ccAddMember(s) ==
    /\ sess[s].pc = "cc_member"
    /\ IF MemberInsertAccepted(sess[s].chama, sess[s].user)
       THEN /\ chama_members' = chama_members \cup
                 {MemberRow(sess[s].chama, sess[s].user, "chairperson")}
            /\ sess' = [sess EXCEPT ![s] = Return("success", NoId)]
       ELSE /\ sess' = [sess EXCEPT ![s] = [@ EXCEPT !.pc = "cc_delete"]]
            /\ UNCHANGED chama_members
    /\ UNCHANGED <<impl, serial, dbRest, calls, dbLedger, dbVote>>

\* delete().match({ id }) on chamas
DeleteChamaKept(rows, id) == rows

DeleteChama(rows, id) == {x \in rows : x.id # id}

\* the delete of the chama just created; ON DELETE CASCADE takes its members
ccDelete(s) ==
    /\ sess[s].pc = "cc_delete"
    /\ chamas' = DeleteChama(chamas, sess[s].chama)
    /\ chama_members' =
         {m \in chama_members : \E x \in chamas' : x.id = m.chama_id}
    /\ sess' = [sess EXCEPT ![s] = Return("SetupFailed", NoId)]
    /\ UNCHANGED <<impl, serial, contribution_amount, dbTracker, transactions,
                   transaction_logs, payoutAttempts, dateNow,
                   calls, dbLedger, dbVote>>

\* addMember(chamaId, userId, role, requestedByUserId): entry
addMember(s) ==
    /\ CanStart(s)
    /\ calls < MaxChamaCalls
    /\ \E c \in {x.id : x \in chamas}, t \in Users, u \in Callers,
          r \in {"treasurer"} :
         sess' = [sess EXCEPT ![s] =
            [Frame EXCEPT !.pc = "am_chair", !.user = u, !.chama = c,
                          !.userId = t, !.role = r]]
    /\ calls' = calls + 1
    /\ UNCHANGED <<impl, serial, dbRest, chama_members, dbLedger, dbVote>>

\* select role ... .single(): data only for exactly one row
verifyChairperson(c, u) ==
    /\ Cardinality(MemberRows(c, u)) = 1
    /\ \A m \in MemberRows(c, u) : m.role = "chairperson"

amVerifyChair(s) ==
    /\ sess[s].pc = "am_chair"
    /\ sess' = [sess EXCEPT ![s] =
         IF verifyChairperson(sess[s].chama, sess[s].user)
         THEN [@ EXCEPT !.pc = "am_existing"]
         ELSE Return("Unauthorized", NoId)]
    /\ UNCHANGED <<impl, serial, dbRest, chama_members, calls, dbLedger, dbVote>>

\* select id from chama_members ... .single()
amExisting(s) ==
    /\ sess[s].pc = "am_existing"
    /\ sess' = [sess EXCEPT ![s] =
         IF Cardinality(MemberRows(sess[s].chama, sess[s].userId)) = 1
         THEN Return("AlreadyMember", NoId)
         ELSE [@ EXCEPT !.pc = "am_insert"]]
    /\ UNCHANGED <<impl, serial, dbRest, chama_members, calls, dbLedger, dbVote>>

amInsert(s) ==
    /\ sess[s].pc = "am_insert"
    /\ IF MemberInsertAccepted(sess[s].chama, sess[s].userId)
       THEN /\ chama_members' = chama_members \cup
                 {MemberRow(sess[s].chama, sess[s].userId, sess[s].role)}
            /\ sess' = [sess EXCEPT ![s] = Return("success", NoId)]
       ELSE /\ sess' = [sess EXCEPT ![s] = Return("AddFailed", NoId)]
            /\ UNCHANGED chama_members
    /\ UNCHANGED <<impl, serial, dbRest, calls, dbLedger, dbVote>>

\* joinChama(inviteCode): entry
joinChama(s) ==
    /\ CanStart(s)
    /\ calls < MaxChamaCalls
    /\ \E u \in Callers, code \in {x.invite_code : x \in chamas} :
         sess' = [sess EXCEPT ![s] =
            [Frame EXCEPT !.pc = "jc_chama", !.user = u, !.inviteCode = code]]
    /\ calls' = calls + 1
    /\ UNCHANGED <<impl, serial, dbRest, chama_members, dbLedger, dbVote>>

\* select id, name, is_active from chamas by invite code, active only
jcFindChama(s) ==
    /\ sess[s].pc = "jc_chama"
    /\ LET found == {x \in chamas :
                        x.invite_code = sess[s].inviteCode /\ x.is_active}
       IN  sess' = [sess EXCEPT ![s] =
             IF Cardinality(found) = 1
             THEN [@ EXCEPT !.pc = "jc_existing",
                            !.chama = (CHOOSE x \in found : TRUE).id]
             ELSE Return("InvalidInvite", NoId)]
    /\ UNCHANGED <<impl, serial, dbRest, chama_members, calls, dbLedger, dbVote>>

jcExisting(s) ==
    /\ sess[s].pc = "jc_existing"
    /\ sess' = [sess EXCEPT ![s] =
         IF Cardinality(MemberRows(sess[s].chama, sess[s].user)) = 1
         THEN Return("AlreadyMember", NoId)
         ELSE [@ EXCEPT !.pc = "jc_insert"]]
    /\ UNCHANGED <<impl, serial, dbRest, chama_members, calls, dbLedger, dbVote>>

jcInsert(s) ==
    /\ sess[s].pc = "jc_insert"
    /\ IF MemberInsertAccepted(sess[s].chama, sess[s].user)
       THEN /\ chama_members' = chama_members \cup
                 {MemberRow(sess[s].chama, sess[s].user, "member")}
            /\ sess' = [sess EXCEPT ![s] = Return("success", NoId)]
       ELSE /\ sess' = [sess EXCEPT ![s] = Return("JoinFailed", NoId)]
            /\ UNCHANGED chama_members
    /\ UNCHANGED <<impl, serial, dbRest, calls, dbLedger, dbVote>>

InitChama ==
    /\ InitCommon
    /\ InitRest
    /\ serial = FALSE
    /\ chama_members = InitMembers(1)
    /\ payout_requests = <<>>

NextChama ==
    \E s \in Sessions :
        \/ createChama(s)
        \/ ccInsertChama(s)
        \/ ccAddMember(s)
        \/ ccDelete(s)
        \/ addMember(s)
        \/ amVerifyChair(s)
        \/ amExisting(s)
        \/ amInsert(s)
        \/ joinChama(s)
        \/ jcFindChama(s)
        \/ jcExisting(s)
        \/ jcInsert(s)

SpecChama == InitChama /\ [][NextChama]_vars

\* C26: there is at most one active membership row per chama and user.
C26_OneMembershipPerPair ==
    \A m1, m2 \in chama_members :
        (m1.chama_id = m2.chama_id /\ m1.user_id = m2.user_id
            /\ m1.is_active /\ m2.is_active) => m1 = m2

\* C26 witness: two calls for the same user and chama both passed the lookup
\* for an existing member; one insert was refused by the store.
C26_Witness ==
    /\ Quiescent
    /\ \E s \in Sessions : sess[s].result \in {"AddFailed", "JoinFailed"}
    /\ \E s \in Sessions : sess[s].result = "success"
    /\ Cardinality(MemberRows("c1", 2)) = 1

C28_Step(s) ==
    LET f == sess[s]
        g == sess'[s]
        exists == \E x \in chamas' : x.id = f.chama
    IN  f # g =>
        /\ (f.pc \in {"cc_insert", "cc_member", "cc_delete"}
              /\ g.pc = "idle" /\ g.result = "success") =>
                /\ exists
                /\ \E m \in chama_members' :
                      /\ m.chama_id = f.chama
                      /\ m.user_id = f.user
                      /\ m.role = "chairperson"
        /\ (f.pc = "cc_member" /\ chama_members' = chama_members) =>
                g.pc = "cc_delete"
        /\ f.pc = "cc_delete" =>
                g.pc = "idle" /\ g.result = "SetupFailed" /\ ~exists

\* C28: createChama returns success only with the new chama stored and its
\* creator a member of it with role chairperson; when the insert of that
\* membership fails, the chama row is deleted and the call returns failure.
C28_CreateChamaKeepsChairperson ==
    [][\A s \in Sessions : C28_Step(s)]_vars

\* C28 witness: a createChama call whose membership insert failed has
\* returned, and its chama is gone.
C28_Witness ==
    \E s \in Sessions :
        /\ sess[s].result = "SetupFailed"
        /\ ~\E x \in chamas : x.id \in {NewChamaIds[1], NewChamaIds[2]}


\* ------------------------------------------------------ two chamas at work
\* contributions, votes and disbursements on two chamas, each with a pending
\* request, by overlapping calls
InitIsolation ==
    /\ InitCommon
    /\ InitRest
    /\ serial = FALSE
    /\ chama_members = InitMembers(2)
    /\ payout_requests =
         [r \in RequestIds |->
            [chama_id |-> IF r = "r1" THEN "c1" ELSE "c2", member_id |-> 1,
             amount |-> 1, status |-> "pending"]]

\* two handlers at a time
NextIsolation ==
    \E s \in {1, 2} :
        \/ recordContribution(s)
        \/ rcVerifyMember(s)
        \/ rcInsert(s)
        \/ rcSelectCompleted(s)
        \/ rcUpdateTotal(s)
        \/ VoteActions(s)
        \/ disburseFunds(s)
        \/ dfValidate(s)
        \/ dfAuthorize(s)
        \/ dfLog(s)

SpecIsolation == InitIsolation /\ [][NextIsolation]_vars

VotePcs == {"v_request", "v_member", "v_existing", "v_insert",
            "cvs_votes", "cvs_members", "cvs_update"}

\* the chama a handler works on: that of its request for a vote, its
\* chama_id argument otherwise
OpChama(h) ==
    IF h.pc \in VotePcs THEN payout_requests[h.req].chama_id ELSE h.chama

\* what the store holds for chama c
ChamaData(c) ==
    [total_kitty |-> total_kitty[c],
     members     |-> MembersOf(c),
     requests    |-> {<<r, payout_requests[r]>> :
                        r \in {q \in DOMAIN payout_requests :
                                  payout_requests[q].chama_id = c}},
     votes       |-> {v \in payout_votes :
                        payout_requests[v.payout_request_id].chama_id = c},
     contributions |-> {x \in contributions : x.chama_id = c}]

C27_Step(s) ==
    LET f == sess[s]
        g == sess'[s]
        h == IF f.pc = "idle" THEN g ELSE f
    IN  f # g =>
        \* the step leaves the data of every other chama as it was
        /\ \A c \in Chamas \ {OpChama(h)} : ChamaData(c)' = ChamaData(c)
        \* what the step reads is the data of its own chama
        /\ f.pc = "rc_sum" => g.tv = SumAmounts(Completed(f.chama))
        /\ (f.pc = "cvs_votes" /\ g.pc # "idle") =>
              g.tv = NumVotes(f.req) /\ g.av = NumApprove(f.req)
        /\ (f.pc = "cvs_members" /\ g.pc = "cvs_update") =>
              g.decided = ResolveSecure(f.av, f.tv, NumMembers(f.req))

VerifyCodes == Codes \cup {"T2"}

\* what verifyTransaction inserts: no chama_id and no transaction_type
TransactionRow(id, f) ==
    [id |-> id, chama_id |-> NoCode, user_id |-> f.user,
     amount |-> f.amount, transaction_type |-> NoCode, status |-> "completed",
     transaction_code |-> f.code]

\* a row recorded for code T1 before the calls
RecordedTransaction ==
    [id |-> 1, chama_id |-> "c1", user_id |-> 1, amount |-> 100,
     transaction_type |-> "contribution", status |-> "completed",
     transaction_code |-> "T1"]

\* the constraints of table transactions an insert meets: chama_id and
\* transaction_type NOT NULL, amount > 0, transaction_code UNIQUE
transactions_constraints_dropped(rows, row) == TRUE

transactions_constraints(rows, row) ==
    /\ row.chama_id # NoCode
    /\ row.transaction_type # NoCode
    /\ row.amount > 0
    /\ ~\E x \in rows : x.transaction_code = row.transaction_code

FreshTransactionId == 1 + Cardinality(transactions)

\* verifyTransaction(transactionCode, amount, phoneNumber, userId): the
\* checks before the store is read
verifyTransaction(s) ==
    /\ CanStart(s)
    /\ calls < MaxVerify
    /\ \E t \in VerifyCodes, a \in {0, 100}, u \in Callers :
         sess' = [sess EXCEPT ![s] =
            IF t = NoCode THEN Return("InvalidCode", NoId)
            ELSE IF ~mpesaValidateAmount(a) THEN Return("InvalidAmount", NoId)
            ELSE [Frame EXCEPT !.pc = "vt_lookup", !.user = u, !.code = t,
                               !.amount = a]]
    /\ calls' = calls + 1
    /\ UNCHANGED <<impl, serial, dbRest, chama_members, dbLedger, dbVote>>

\* validateTransaction: select id from transactions by code, .single()
vtLookup(s) ==
    /\ sess[s].pc = "vt_lookup"
    /\ sess' = [sess EXCEPT ![s] =
         IF Cardinality({x \in transactions :
                            x.transaction_code = sess[s].code}) = 1
         THEN Return("AlreadyProcessed", NoId)
         ELSE [@ EXCEPT !.pc = "vt_verify"]]
    /\ UNCHANGED <<impl, serial, dbRest, chama_members, calls, dbLedger, dbVote>>

\* validateTransaction: the simulated verification, which fails at random
vtVerify(s) ==
    /\ sess[s].pc = "vt_verify"
    /\ \E ok \in BOOLEAN :
         sess' = [sess EXCEPT ![s] =
            IF ok THEN [@ EXCEPT !.pc = "vt_log"]
            ELSE Return("VerificationFailed", NoId)]
    /\ UNCHANGED <<impl, serial, dbRest, chama_members, calls, dbLedger, dbVote>>

\* update transaction_logs set status = 'verified', transaction_code
\* where phone_number, amount match and status = 'pending'
vtUpdateLog(s) ==
    /\ sess[s].pc = "vt_log"
    /\ transaction_logs' =
         {IF x.amount = sess[s].amount /\ x.status = "pending"
          THEN [x EXCEPT !.status = "verified", !.transaction_code = sess[s].code]
          ELSE x : x \in transaction_logs}
    /\ sess' = [sess EXCEPT ![s] = [@ EXCEPT !.pc = "vt_insert"]]
    /\ UNCHANGED <<impl, serial, contribution_amount, dbTracker, chamas,
                   transactions, payoutAttempts, dateNow, chama_members,
                   calls, dbLedger, dbVote>>

\* insert into transactions; an error is logged and the result stays valid
vtInsert(s) ==
    /\ sess[s].pc = "vt_insert"
    /\ LET row == TransactionRow(FreshTransactionId, sess[s])
       IN  transactions' =
             IF transactions_constraints(transactions, row)
             THEN transactions \cup {row}
             ELSE transactions
    /\ sess' = [sess EXCEPT ![s] = Return("valid", NoId)]
    /\ UNCHANGED <<impl, serial, contribution_amount, dbTracker, chamas,
                   transaction_logs, payoutAttempts, dateNow, chama_members,
                   calls, dbLedger, dbVote>>

\* the build of src/lib/mpesa.ts; code T1 recorded or not, one payment
\* request logged as pending or none
InitVerify ==
    /\ impl = "secure"
    /\ serial = FALSE
    /\ total_kitty = [c \in Chamas |-> 0]
    /\ contribution_amount = [c \in Chamas |-> 1]
    /\ chama_members = InitMembers(1)
    /\ contributions = {}
    /\ payout_requests = <<>>
    /\ payout_votes = {}
    /\ calls = 0
    /\ cast = [r \in RequestIds |-> [u \in Users |-> {}]]
    /\ sess = [s \in Sessions |-> Frame]
    /\ disbursement_logs = {}
    /\ loan_repayments = {}
    /\ clock = 0
    /\ chamas = {ChamaRow(c, 1) : c \in Chamas}
    /\ transactions \in {{}, {RecordedTransaction}}
    /\ transaction_logs \in
         {{}, {[id |-> 1, amount |-> 100, status |-> "pending",
                transaction_code |-> NoCode]}}
    /\ payoutAttempts = [i \in RateLimitIds |-> NoAttempt]
    /\ dateNow = 0

NextVerify ==
    \E s \in Sessions :
        \/ verifyTransaction(s)
        \/ vtLookup(s)
        \/ vtVerify(s)
        \/ vtUpdateLog(s)
        \/ vtInsert(s)

SpecVerify == InitVerify /\ [][NextVerify]_vars

RecordedFor(rows, t) == {x \in rows : x.transaction_code = t}

C29_Step(s) ==
    LET f == sess[s]
        g == sess'[s]
    IN  (f # g /\ f.pc = "vt_lookup" /\ RecordedFor(transactions, f.code) # {}) =>
            /\ g.pc = "idle"
            /\ g.result = "AlreadyProcessed"
            /\ transactions' = transactions

RATE_LIMIT_WINDOW == 60000
MAX_ATTEMPTS == 5
TickMs == 20000

\* checkRateLimit: the window since the last counted attempt has passed
WindowPassed(a, t) == t - a.lastAttempt > RATE_LIMIT_WINDOW

\* checkRateLimit: limited
RateLimitedNever(a, t) == FALSE

RateLimited(a, t) ==
    /\ a # NoAttempt
    /\ ~WindowPassed(a, t)
    /\ a.count >= MAX_ATTEMPTS

\* checkRateLimit: the entry it leaves for the identifier
AttemptAfter(a, t) ==
    IF a = NoAttempt THEN [count |-> 1, lastAttempt |-> t]
    ELSE IF WindowPassed(a, t) THEN [count |-> 1, lastAttempt |-> t]
    ELSE IF RateLimited(a, t) THEN a
    ELSE [count |-> a.count + 1, lastAttempt |-> t]

\* time passes
tick ==
    /\ dateNow < MaxTicks * TickMs
    /\ dateNow' = dateNow + TickMs
    /\ UNCHANGED <<impl, serial, contribution_amount, dbTracker, chamas,
                   transactions, transaction_logs, payoutAttempts,
                   chama_members, calls, dbLedger, dbVote, sess>>

\* voteOnPayout(requestId, vote) with its attempt gate
voteOnPayoutGated(s) ==
    /\ CanStart(s)
    /\ calls < MaxGateCalls
    /\ \E u \in Callers, r \in DOMAIN payout_requests :
         LET a == payoutAttempts[<<"vote", u>>]
         IN  IF RateLimited(a, dateNow)
             THEN /\ sess' = [sess EXCEPT ![s] = Return("RateLimited", NoId)]
                  /\ UNCHANGED <<payoutAttempts, cast>>
             ELSE /\ payoutAttempts' =
                       [payoutAttempts EXCEPT ![<<"vote", u>>] =
                                                  AttemptAfter(a, dateNow)]
                  /\ sess' = [sess EXCEPT ![s] =
                                [Frame EXCEPT !.pc = "v_request", !.user = u,
                                              !.req = r, !.vote = "approve"]]
                  /\ cast' = [cast EXCEPT ![r][u] = @ \cup {"approve"}]
    /\ calls' = calls + 1
    /\ UNCHANGED <<impl, serial, dbNoAttempts, chama_members, dbLedger,
                   payout_requests, payout_votes>>

\* requestPayout(requestData) with its attempt gate: a well-formed request
\* or one with amount 0
requestPayoutGated(s) ==
    /\ CanStart(s)
    /\ calls < MaxGateCalls
    /\ \E amt \in {0, 1} :
         LET a == payoutAttempts[<<"payoutRequest", 1>>]
         IN  IF RateLimited(a, dateNow)
             THEN /\ sess' = [sess EXCEPT ![s] = Return("RateLimited", NoId)]
                  /\ UNCHANGED payoutAttempts
             ELSE /\ payoutAttempts' =
                       [payoutAttempts EXCEPT ![<<"payoutRequest", 1>>] =
                                                  AttemptAfter(a, dateNow)]
                  /\ sess' = [sess EXCEPT ![s] =
                                [Frame EXCEPT !.pc = "rp_member", !.user = 1,
                                              !.chama = "c1", !.amount = amt,
                                              !.plen = MIN_PURPOSE_LENGTH]]
    /\ calls' = calls + 1
    /\ UNCHANGED <<impl, serial, dbNoAttempts, chama_members, dbLedger, dbVote>>

\* the build of part_005, calls one after another: chama c1 with a fund of 3,
\* member 1 and a pending request; user 2 is not a member
InitGate ==
    /\ impl = "secure"
    /\ serial = TRUE
    /\ total_kitty = [c \in Chamas |-> 3]
    /\ contributions = {}
    /\ payout_votes = {}
    /\ calls = 0
    /\ cast = [r \in RequestIds |-> [u \in Users |-> {}]]
    /\ sess = [s \in Sessions |-> Frame]
    /\ InitRest
    /\ chama_members = InitMembers(1)
    /\ payout_requests =
         [r \in {"r1"} |-> RequestRow(1, "pending", "payout", Null, Null)]

NextGate ==
    \/ tick
    \/ \E s \in Sessions :
        \/ voteOnPayoutGated(s)
        \/ voteGetRequest(s)
        \/ voteVerifyMember(s)
        \/ voteCheckExisting(s)
        \/ voteInsert(s)
        \/ cvsSelectVotes(s)
        \/ cvsSelectMembers(s)
        \/ cvsUpdateStatus(s)
        \/ requestPayoutGated(s)
        \/ rpVerifyMember(s)
        \/ rpSelectChama(s)
        \/ rpInsert(s)

SpecGate == InitGate /\ [][NextGate]_vars

\* the identifier a handler passes to checkRateLimit
GateId(h) ==
    <<IF h.pc \in VotePcs THEN "vote" ELSE "payoutRequest", h.user>>

C30_Step(s) ==
    LET f == sess[s]
        g == sess'[s]
        a == payoutAttempts[GateId(g)]
        b == payoutAttempts'[GateId(g)]
    IN  f # g =>
        \* a limited call returns at once and changes neither map nor store
        /\ g.result = "RateLimited" =>
              /\ f.pc = "idle"
              /\ payoutAttempts' = payoutAttempts
              /\ payout_votes' = payout_votes
              /\ payout_requests' = payout_requests
              /\ \E i \in RateLimitIds :
                    /\ payoutAttempts[i].count >= 5
                    /\ dateNow - payoutAttempts[i].lastAttempt <= 60000
        \* an admitted call is counted: 1 after the window or with no entry,
        \* one more otherwise, and never beyond 5
        /\ (f.pc = "idle" /\ g.pc # "idle") =>
              /\ b.lastAttempt = dateNow
              /\ IF a.count = 0 \/ dateNow - a.lastAttempt > 60000
                 THEN b.count = 1
                 ELSE a.count < 5 /\ b.count = a.count + 1
              /\ \A i \in RateLimitIds \ {GateId(g)} :
                    payoutAttempts'[i] = payoutAttempts[i]
        \* a successful call clears the entry
        /\ (f.pc # "idle" /\ g.result = "success") =>
              payoutAttempts'[GateId(f)].count = 0

\* C30: the attempt gate of requestPayout and voteOnPayout admits a call and
\* counts it, starting again at 1 when more than 60 s have passed since the
\* last admitted call, never counts beyond 5, reports a call on a full count
\* within the 60 s as limited without touching the map or the store, and a
\* successful call clears the entry.
C30_AttemptGate ==
    [][/\ \A s \in Sessions : C30_Step(s)
       /\ \A i \in RateLimitIds : payoutAttempts'[i].count <= 5]_vars

\* C30 witness: user 2 has been admitted five times and then been limited.
C30_Witness ==
    /\ sess[1].result = "RateLimited"
    /\ payoutAttempts[<<"vote", 2>>].count = 5
    /\ calls = 6

====
